---- MODULE Spec2Model ----
(***************************************************************************)
(* A model of the biostar forum: the cached paginator, the post listing    *)
(* query builder, the moderation handlers, badge seeding and the task      *)
(* dispatch decorators.  Each part has a specification of its own over the *)
(* variables it uses; the other variables stay at their initial value.     *)
(***************************************************************************)
EXTENDS Integers, Sequences, FiniteSets, TLC

VARIABLES
    \* --- cached pagination (biostar/forum/views.py, CachedPaginator) ---
    cache,      \* the process-wide cache: sanitized key -> entry
    now,        \* the clock the cache reads, in seconds
    dbCount,    \* what the underlying count computation returns right now
    calls,      \* the completed count calls, oldest first
    \* --- moderation (mark_spam, release_quar, user_moderate, post_view, badge_view) ---
    posts,      \* Post rows: uid -> [author, spam]
    profiles,   \* Profile rows: user id -> [state, score]
    log,        \* Log rows, oldest first
    last,       \* the request handled last and its response
    mutations,  \* how many requests have changed a post or a profile
    bumps,      \* per user, how often the score was bumped
    inplace,    \* whether toggle_spam updates the Post object its caller holds
    \* --- badge seeding (biostar/forum/apps.py, init_awards) ---
    awards,     \* ALL_AWARDS: award name -> its definition
    badges,     \* Badge rows, in the order they were created
    runs,       \* how often init_awards has run
    fresh,      \* whether init_awards has run since the definitions last changed
    \* --- task dispatch (biostar/utils/decorators.py) ---
    settings,   \* settings.DISABLE_TASKS and settings.MULTI_THREAD
    uwsgi,      \* whether uwsgidecorators can be imported
    worker,     \* per decorator (spooler, threaded), what decorating a function gave
    pending,    \* worker threads started and not yet run
    queued,     \* jobs handed to the uwsgi spooler and not yet run
    done,       \* how often the wrapped function has run
    call,       \* the invocation made last and how it ended
    \* --- post listing (biostar/forum/views.py, get_posts) ---
    db,             \* the Post, Vote and Subscription rows
    question_code,  \* the value of Post.QUESTION, which views.py tests for truth
    listing,        \* the get_posts call made and what it returned
    \* --- periodic tasks (biostar/utils/decorators.py, timed) ---
    timers,     \* per timer started with .timer(secs): where it is and what it has done
    alive,      \* whether the process is running
    \* --- concurrent count calls (biostar/forum/views.py, CachedPaginator.count) ---
    readers,    \* per request thread, where its count call is and what it has done
    \* --- listing views (latest, post_topic, myvotes, myposts, following, ...) ---
    served,     \* the count cache of the listing views: sanitized key -> count
    first,      \* the first listing request and its response
    second      \* the listing request after it and its response

cacheVars == <<cache, now, dbCount, calls>>

modVars == <<posts, profiles, log, last, mutations, bumps, inplace>>

badgeVars == <<awards, badges, runs, fresh>>

taskVars == <<settings, uwsgi, worker, pending, queued, done, call>>

postVars == <<db, question_code, listing>>

timerVars == <<timers, alive>>

raceVars == <<readers>>

viewVars == <<served, first, second>>

\* What the actions of one part leave alone.
notCache == <<modVars, badgeVars, taskVars, postVars, timerVars, raceVars, viewVars>>
notMod == <<cacheVars, badgeVars, taskVars, postVars, timerVars, raceVars, viewVars>>
notBadges == <<cacheVars, modVars, taskVars, postVars, timerVars, raceVars, viewVars>>
notTasks == <<cacheVars, modVars, badgeVars, postVars, timerVars, raceVars, viewVars>>
notPosts == <<cacheVars, modVars, badgeVars, taskVars, timerVars, raceVars, viewVars>>
notTimers == <<cacheVars, modVars, badgeVars, taskVars, postVars, raceVars, viewVars>>
notRace == <<modVars, badgeVars, taskVars, postVars, timerVars, viewVars>>
notViews == <<cacheVars, modVars, badgeVars, taskVars, timerVars, raceVars>>

vars == <<cache, now, dbCount, calls, posts, profiles, log, last, mutations, bumps, inplace,
          awards, badges, runs, fresh, settings, uwsgi, worker, pending, queued, done, call,
          db, question_code, listing, timers, alive, readers, served, first, second>>

(***************************************************************************)
(* Bounds of the model.                                                    *)
(***************************************************************************)
MaxCalls == 3
MaxCount == 2
MaxTicks == 4
MaxReqs == 3
MaxScore == 3
MaxRuns == 3
MaxDispatch == 3
MaxVotes == 1
OldAge == 10
MaxTimers == 2
CounterWrap == 3
MaxReaders == 2

(***************************************************************************)
(* Cached pagination.                                                      *)
(***************************************************************************)

\* CachedPaginator.TTL: time to live of a cache entry, in seconds.
TTL == 3000

\* The clock advances in steps of a third of the TTL.
TickLen == TTL \div 3

\* Keys are sequences of characters; str.split() splits on these.
Whitespace == {" ", "\t"}

\* The keys callers hand to the paginator.
RawKeys == { <<>>, <<" ">>, <<"a">>, <<" ", "a">>, <<"a", "\t">>, <<"b">>, <<"a", " ", "b">> }

NotWhitespace(c) == c \notin Whitespace

\* ''.join(cache_key.split())
sanitize(key) == SelectSeq(key, NotWhitespace)

CacheKeys == { sanitize(k) : k \in RawKeys }

\* cache.get answers None for a key that is absent or has expired.
None == -1

NoEntry == [present |-> FALSE, value |-> 0, expires |-> 0]

cache_get(key) ==
    IF cache[key].present /\ cache[key].expires > now
    THEN cache[key].value
    ELSE None

cache_set(key, value, ttl) ==
    [cache EXCEPT ![key] = [present |-> TRUE, value |-> value, expires |-> now + ttl]]

\* Paginator.count of the parent class: counts the object list.
super_count == dbCount

\* Whether an entry of the key is live when the call starts.
Live(key) == key # <<>> /\ cache_get(key) # None

\* The record kept of one count call: what it returned, whether it ran the
\* underlying computation, whether it found a live entry, and the expiry of the
\* entry its key has when it returns.
CallRecord(key, value, computed, after) ==
    [key |-> key, value |-> value, computed |-> computed, at |-> now,
     live |-> Live(key),
     expires |-> IF key = <<>> THEN 0 ELSE after[key].expires]

\* The count property when the TTL check is left out of the cache read.
CountNoExpiry(rawKey) ==
    LET key == sanitize(rawKey) IN
    IF key # <<>> /\ cache[key].present
    THEN /\ UNCHANGED cache
         /\ calls' = Append(calls, CallRecord(key, cache[key].value, FALSE, cache'))
    ELSE /\ cache' = IF key # <<>> THEN cache_set(key, super_count, TTL) ELSE cache
         /\ calls' = Append(calls, CallRecord(key, super_count, TRUE, cache'))

\* CachedPaginator.count, for a paginator built with cache_key = rawKey.
Count(rawKey) ==
    LET key == sanitize(rawKey) IN
    IF key # <<>>
    THEN LET value == cache_get(key) IN
         IF value = None
         THEN /\ cache' = cache_set(key, super_count, TTL)
              /\ calls' = Append(calls, CallRecord(key, super_count, TRUE, cache'))
         ELSE /\ UNCHANGED cache
              /\ calls' = Append(calls, CallRecord(key, value, FALSE, cache'))
    ELSE /\ UNCHANGED cache
         /\ calls' = Append(calls, CallRecord(key, super_count, TRUE, cache'))

\* A request builds a paginator and reads its count once.
CountCall ==
    /\ Len(calls) < MaxCalls
    /\ \E rawKey \in RawKeys : Count(rawKey)
    /\ UNCHANGED <<now, dbCount>>
    /\ UNCHANGED notCache

\* Time passes.
Tick ==
    /\ now + TickLen <= MaxTicks * TickLen
    /\ now' = now + TickLen
    /\ UNCHANGED <<cache, dbCount, calls>>
    /\ UNCHANGED notCache

\* The counted collection grows or shrinks between requests.
CollectionChanges ==
    /\ \E n \in 0..MaxCount : n # dbCount /\ dbCount' = n
    /\ UNCHANGED <<cache, now, calls>>
    /\ UNCHANGED notCache

(***************************************************************************)
(* Moderation handlers.                                                    *)
(***************************************************************************)

\* Profile.NEW, Profile_TRUSTED, Profile_SUSPENDED, Profile_BANNED = range(1, 5)
Profile_NEW == 1
Profile_TRUSTED == 2
Profile_SUSPENDED == 3
Profile_BANNED == 4

\* Profile.STATE_CHOICES, as state -> display text.
STATE_CHOICES == (Profile_NEW :> "New") @@ (Profile_TRUSTED :> "Active") @@ (Profile_SUSPENDED :> "Suspended") @@ (Profile_BANNED :> "Banned")

\* Profile.get_state_display()
get_state_display(state) == STATE_CHOICES[state]

\* The users of the model; "mod" is a moderator, "alice" is not.
Users == {"mod", "alice"}
Moderators == {"mod"}

\* Ids a request can name: the users, and one that matches no user.
UserIds == {"alice", "nobody"}

\* Post uids a request can name: the posts, and one that matches no post.
PostUids == {"p1", "p2"}
RequestUids == PostUids \cup {"missing"}

\* Badge uids a request can name: one badge, and one that matches no badge.
BadgeUids == {"b1"}
RequestBadgeUids == BadgeUids \cup {"missing"}

\* Who can send a request to a view without a login decorator.
Visitors == {"alice", "anonymous"}

\* Post.spam values: Post.SPAM, Post.NOT_SPAM, and the quarantined state.
SPAM == "SPAM"
NOT_SPAM == "NOT_SPAM"
SUSPECT == "SUSPECT"
SpamValues == {SPAM, NOT_SPAM, SUSPECT}

\* Post.is_spam
is_spam(post) == post.spam = SPAM

\* settings.LOW_REP_THRESHOLD
LOW_REP_THRESHOLD == 2

\* Profile.low_rep
low_rep(profile) == profile.score < LOW_REP_THRESHOLD

\* Profile.bump_over_threshold(): the score after the bump.
bump_over_threshold(profile) == LOW_REP_THRESHOLD + 1

\* The values a moderation form can carry as its action.
ActionValues == DOMAIN STATE_CHOICES \cup {9}

\* UserModerate.is_valid(): the action must be one of the choices, and the
\* form's own clean() step (cleanOk) must accept the submission.
is_valid(action, cleanOk) == action \in DOMAIN STATE_CHOICES /\ cleanOk

\* auth.db_logger(user, text, target): one Log row.
db_logger(user, text, target) ==
    Append(log, [user |-> user, text |-> text, target |-> target])

\* The response of a handler and what it has to do with the state before.
NoRequest ==
    [n |-> 0, handler |-> "none", user |-> "none", uid |-> "none", restore |-> FALSE,
     method |-> "GET", action |-> 0, valid |-> FALSE, exists |-> FALSE,
     denied |-> FALSE, kind |-> "none", to |-> "none", msg |-> "none",
     spamBefore |-> "none", stateBefore |-> 0, scoreBefore |-> 0, logBefore |-> 0,
     changed |-> FALSE]

Request(handler, user, uid) ==
    [NoRequest EXCEPT !.n = last.n + 1, !.handler = handler, !.user = user, !.uid = uid,
                      !.logBefore = Len(log)]

Redirect(req, to, msg) == [req EXCEPT !.kind = "redirect", !.to = to, !.msg = msg]
Render(req) == [req EXCEPT !.kind = "render"]
Raise(req, msg) == [req EXCEPT !.kind = "raise", !.msg = msg]

\* What toggle_spam makes of a spam value.
Toggled(post) == IF is_spam(post) THEN NOT_SPAM ELSE SPAM

\* auth.toggle_spam(request, post): flips the post between spam and not spam and
\* logs the change.
toggle_spam(user, uid) ==
    /\ posts' = [posts EXCEPT ![uid].spam = Toggled(posts[uid])]
    /\ log' = db_logger(user,
                        IF is_spam(posts[uid]) THEN <<"restored post from spam">>
                                               ELSE <<"marked post as spam">>,
                        posts[uid].author)

\* The is_moderator decorator lets moderators through and redirects the rest
\* before the view sees the request.
Denied(user) == user \notin Moderators

DeniedResponse(handler, user) ==
    Redirect([Request(handler, user, "none") EXCEPT !.denied = TRUE], "/", "error")

\* mark_spam(request, uid), views.py 209-231.
mark_spam(user, uid, restore) ==
    LET req == [Request("mark_spam", user, uid) EXCEPT !.restore = restore]
        \* A restore parameter sent toggles spam off: computed, and not used.
        state == IF restore THEN FALSE ELSE TRUE
    IN
    IF Denied(user)
    THEN /\ last' = DeniedResponse("mark_spam", user)
         /\ UNCHANGED <<posts, profiles, log, mutations, bumps>>
    ELSE IF uid \in DOMAIN posts
    THEN /\ toggle_spam(user, uid)
         /\ mutations' = mutations + 1
         \* post.is_spam reads the object fetched before the toggle.
         /\ LET seen == IF inplace THEN posts'[uid] ELSE posts[uid] IN
            last' = Redirect([req EXCEPT !.exists = TRUE, !.changed = TRUE,
                                         !.spamBefore = posts[uid].spam],
                             IF is_spam(seen) THEN "post_topic:spam" ELSE "/",
                             "success")
         /\ UNCHANGED <<profiles, bumps>>
    ELSE \* messages.error, and then post.is_spam on None raises AttributeError.
         /\ last' = Raise(req, "error")
         /\ UNCHANGED <<posts, profiles, log, mutations, bumps>>

\* release_quar without the low_rep test in front of the bump.
release_quar_always_bumps(user, uid) ==
    LET req == Request("release_quar", user, uid) IN
    IF Denied(user)
    THEN /\ last' = DeniedResponse("release_quar", user)
         /\ UNCHANGED <<posts, profiles, log, mutations, bumps>>
    ELSE IF uid \notin DOMAIN posts
    THEN /\ last' = Redirect(req, "/", "error")
         /\ UNCHANGED <<posts, profiles, log, mutations, bumps>>
    ELSE LET author == posts[uid].author IN
         /\ profiles' = [profiles EXCEPT ![author].score = bump_over_threshold(profiles[author])]
         /\ bumps' = [bumps EXCEPT ![author] = @ + 1]
         /\ posts' = [posts EXCEPT ![uid].spam = NOT_SPAM]
         /\ mutations' = mutations + 1
         /\ last' = Redirect([req EXCEPT !.exists = TRUE, !.changed = TRUE,
                                         !.spamBefore = posts[uid].spam,
                                         !.scoreBefore = profiles[author].score],
                             "/", "none")
         /\ UNCHANGED log

\* release_quar(request, uid), views.py 234-251.
release_quar(user, uid) ==
    LET req == Request("release_quar", user, uid) IN
    IF Denied(user)
    THEN /\ last' = DeniedResponse("release_quar", user)
         /\ UNCHANGED <<posts, profiles, log, mutations, bumps>>
    ELSE IF uid \notin DOMAIN posts
    THEN /\ last' = Redirect(req, "/", "error")
         /\ UNCHANGED <<posts, profiles, log, mutations, bumps>>
    ELSE LET author == posts[uid].author
             low == low_rep(profiles[author])
         IN
         /\ profiles' = IF low
                        THEN [profiles EXCEPT ![author].score = bump_over_threshold(profiles[author])]
                        ELSE profiles
         /\ bumps' = IF low THEN [bumps EXCEPT ![author] = @ + 1] ELSE bumps
         /\ posts' = [posts EXCEPT ![uid].spam = NOT_SPAM]
         /\ mutations' = IF posts' # posts \/ profiles' # profiles
                         THEN mutations + 1 ELSE mutations
         /\ last' = Redirect([req EXCEPT !.exists = TRUE,
                                         !.changed = (posts' # posts \/ profiles' # profiles),
                                         !.spamBefore = posts[uid].spam,
                                         !.scoreBefore = profiles[author].score],
                             "/", "none")
         /\ UNCHANGED log

\* user_moderate with the state saved before the form is validated.
user_moderate_saves_first(user, uid, method, action, cleanOk) ==
    LET req == Request("user_moderate", user, uid) IN
    IF uid \notin DOMAIN profiles
    THEN /\ last' = Raise(req, "none")
         /\ UNCHANGED <<posts, profiles, log, mutations, bumps>>
    ELSE LET seen == [req EXCEPT !.exists = TRUE, !.stateBefore = profiles[uid].state,
                                 !.method = method,
                                 !.action = IF method = "POST" THEN action ELSE 0] IN
         IF method = "POST" /\ action \in DOMAIN STATE_CHOICES
         THEN /\ profiles' = [profiles EXCEPT ![uid].state = action]
              /\ log' = IF is_valid(action, cleanOk)
                        THEN db_logger(user, <<"set state to", get_state_display(action)>>, uid)
                        ELSE log
              /\ mutations' = mutations + 1
              /\ last' = Redirect([seen EXCEPT !.valid = is_valid(action, cleanOk), !.changed = TRUE],
                                  "user_profile",
                                  IF is_valid(action, cleanOk) THEN "success" ELSE "error")
              /\ UNCHANGED <<posts, bumps>>
         ELSE /\ last' = IF method = "POST" THEN Redirect(seen, "user_profile", "error")
                                            ELSE Render(seen)
              /\ UNCHANGED <<posts, profiles, log, mutations, bumps>>

\* user_moderate(request, uid), views.py 612-640.
user_moderate(user, uid, method, action, cleanOk) ==
    LET req == Request("user_moderate", user, uid) IN
    IF uid \notin DOMAIN profiles
    THEN \* target is None, and target.profile raises AttributeError.
         /\ last' = Raise(req, "none")
         /\ UNCHANGED <<posts, profiles, log, mutations, bumps>>
    ELSE LET seen == [req EXCEPT !.exists = TRUE, !.stateBefore = profiles[uid].state,
                                 !.method = method,
                                 !.action = IF method = "POST" THEN action ELSE 0] IN
         IF method = "POST"
         THEN IF is_valid(action, cleanOk)
              THEN /\ profiles' = [profiles EXCEPT ![uid].state = action]
                   /\ log' = db_logger(user, <<"set state to", get_state_display(action)>>, uid)
                   /\ mutations' = mutations + 1
                   /\ last' = Redirect([seen EXCEPT !.valid = TRUE, !.changed = TRUE],
                                       "user_profile", "success")
                   /\ UNCHANGED <<posts, bumps>>
              ELSE /\ last' = Redirect(seen, "user_profile", "error")
                   /\ UNCHANGED <<posts, profiles, log, mutations, bumps>>
         ELSE /\ last' = Render(seen)
              /\ UNCHANGED <<posts, profiles, log, mutations, bumps>>

\* post_view(request, uid), views.py 504-544; formOk is PostShortForm.is_valid().
post_view(user, uid, method, formOk) ==
    LET req == Request("post_view", user, uid) IN
    IF uid \notin DOMAIN posts
    THEN /\ last' = Redirect(req, "post_list", "error")
         /\ UNCHANGED <<posts, profiles, log, mutations, bumps>>
    ELSE LET here == [req EXCEPT !.exists = TRUE, !.spamBefore = posts[uid].spam]
             seen == [here EXCEPT !.method = method]
         IN
         IF ~posts[uid].is_toplevel
         THEN /\ last' = Redirect(here, "post_view", "none")
              /\ UNCHANGED <<posts, profiles, log, mutations, bumps>>
         ELSE IF is_spam(posts[uid]) /\ user = "anonymous"
         THEN /\ last' = Raise(here, "Http404")
              /\ UNCHANGED <<posts, profiles, log, mutations, bumps>>
         ELSE IF method = "POST" /\ formOk
         THEN \* auth.create_post adds an answer under the post.
              /\ posts' = [posts EXCEPT ![uid].answered = TRUE]
              /\ last' = Redirect([seen EXCEPT !.valid = TRUE, !.changed = (posts' # posts)],
                                  "post_view", "none")
              /\ UNCHANGED <<profiles, log, mutations, bumps>>
         ELSE /\ last' = [Render(seen) EXCEPT !.msg = IF method = "POST" THEN "error" ELSE "none"]
              /\ UNCHANGED <<posts, profiles, log, mutations, bumps>>

\* badge_view(request, uid), views.py 478-499.
badge_view(user, uid) ==
    LET req == Request("badge_view", user, uid) IN
    /\ last' = IF uid \notin BadgeUids
               THEN Redirect(req, "badge_list", "error")
               ELSE Render([req EXCEPT !.exists = TRUE])
    /\ UNCHANGED <<posts, profiles, log, mutations, bumps>>

MarkSpam ==
    /\ last.n < MaxReqs
    /\ \E user \in Users, uid \in RequestUids, restore \in BOOLEAN : mark_spam(user, uid, restore)
    /\ UNCHANGED inplace
    /\ UNCHANGED notMod

ReleaseQuar ==
    /\ last.n < MaxReqs
    /\ \E user \in Users, uid \in RequestUids : release_quar(user, uid)
    /\ UNCHANGED inplace
    /\ UNCHANGED notMod

UserModerate ==
    /\ last.n < MaxReqs
    /\ \E user \in Moderators, uid \in UserIds, method \in {"GET", "POST"},
          action \in ActionValues, cleanOk \in BOOLEAN :
            user_moderate(user, uid, method, action, cleanOk)
    /\ UNCHANGED inplace
    /\ UNCHANGED notMod

PostView ==
    /\ last.n < MaxReqs
    /\ \E user \in Visitors, uid \in RequestUids, method \in {"GET", "POST"}, formOk \in BOOLEAN :
            post_view(user, uid, method, formOk)
    /\ UNCHANGED inplace
    /\ UNCHANGED notMod

BadgeView ==
    /\ last.n < MaxReqs
    /\ \E user \in Visitors, uid \in RequestBadgeUids : badge_view(user, uid)
    /\ UNCHANGED inplace
    /\ UNCHANGED notMod

(***************************************************************************)
(* Badge seeding.                                                          *)
(***************************************************************************)

\* ALL_AWARDS, in list order, and what a definition can say.
AwardNames == <<"Teacher", "Scholar">>
Descs == {"d1", "d2"}
Icons == {"i1", "i2"}
Types == {"BRONZE", "SILVER"}
Definitions == [desc : Descs, icon : Icons, type : Types]

\* Badge.objects.create(name=...): the other fields take the model's defaults.
NewBadge(name) == [name |-> name, desc |-> "", icon |-> "", type |-> "BRONZE"]

\* Badge.objects.filter(name=...), as a truth value.
HasBadge(rows, name) == \E i \in 1..Len(rows) : rows[i].name = name

\* One round of the loop of init_awards, for the award at place i.
SeedOne(rows, i) ==
    LET name == AwardNames[i]
        obj == awards[name]
        badge == NewBadge(name)
    IN
    IF HasBadge(rows, name)
    THEN rows
    ELSE IF badge.desc # obj.desc
         THEN Append(rows, [badge EXCEPT !.desc = obj.desc, !.icon = obj.icon, !.type = obj.type])
         ELSE Append(rows, badge)

RECURSIVE SeedFrom(_, _)
SeedFrom(rows, i) ==
    IF i > Len(AwardNames) THEN rows ELSE SeedFrom(SeedOne(rows, i), i + 1)

\* init_awards(sender), apps.py 21-40: the post_migrate handler.
init_awards ==
    /\ runs < MaxRuns
    /\ badges' = SeedFrom(badges, 1)
    /\ runs' = runs + 1
    /\ fresh' = TRUE
    /\ UNCHANGED awards
    /\ UNCHANGED notBadges

\* A release changes the definition of an award between two runs.
AwardChanges ==
    /\ \E i \in 1..Len(AwardNames), d \in Definitions :
         /\ d # awards[AwardNames[i]]
         /\ awards' = [awards EXCEPT ![AwardNames[i]] = d]
    /\ fresh' = FALSE
    /\ UNCHANGED <<badges, runs>>
    /\ UNCHANGED notBadges

(***************************************************************************)
(* Task dispatch.                                                          *)
(***************************************************************************)

\* The two decorators of the module, and the ways to invoke what they return.
Decorators == {"spooler", "threaded"}
Vias == {"call", "spool", "delay"}

NoCall == [n |-> 0, decorator |-> "none", via |-> "none", outcome |-> "none",
           ran |-> 0, started |-> 0, spooled |-> 0]

\* thread(...)(func), decorators.py 9-43: outer returns None when tasks are
\* disabled, and inner (with spool, delay and timer attributes) otherwise.
outer == IF settings.DISABLE_TASKS THEN "None" ELSE "inner"

\* spool of decorators.py 48-61: uwsgi's decorator, or thread without uwsgi.
spool == IF uwsgi THEN "uwsgi" ELSE outer

\* spooler(f), decorators.py 64-67: setting worker.delay raises AttributeError
\* when the decorator gave None.
spooler == IF spool = "None" THEN "AttributeError" ELSE spool

\* threaded(f), decorators.py 70-72.
threaded == outer

\* A module that defines tasks is imported: its functions get decorated.
Decorate ==
    /\ \E d \in Decorators :
         /\ worker[d] = "undecorated"
         /\ worker' = [worker EXCEPT ![d] = IF d = "spooler" THEN spooler ELSE threaded]
    /\ UNCHANGED <<settings, uwsgi, pending, queued, done, call>>
    /\ UNCHANGED notTasks

\* inner with the worker thread started whatever MULTI_THREAD says.
InvokeAlwaysThreads(d, via) ==
    LET rec == [NoCall EXCEPT !.n = call.n + 1, !.decorator = d, !.via = via] IN
    IF worker[d] = "inner"
    THEN /\ pending' = pending + 1
         /\ call' = [rec EXCEPT !.outcome = "returned", !.started = 1]
         /\ UNCHANGED <<queued, done>>
    ELSE IF worker[d] = "uwsgi"
    THEN /\ queued' = queued + 1
         /\ call' = [rec EXCEPT !.outcome = "returned", !.spooled = 1]
         /\ UNCHANGED <<pending, done>>
    ELSE /\ call' = [rec EXCEPT !.outcome = "raised"]
         /\ UNCHANGED <<pending, queued, done>>

\* inner(*args, **kwargs), decorators.py 14-21, reached as worker(...),
\* worker.spool(...) or worker.delay(...); and what the other results of
\* decorating do when they are invoked.
Invoke(d, via) ==
    LET rec == [NoCall EXCEPT !.n = call.n + 1, !.decorator = d, !.via = via] IN
    IF worker[d] = "inner"
    THEN IF settings.MULTI_THREAD
         THEN /\ pending' = pending + 1
              /\ call' = [rec EXCEPT !.outcome = "returned", !.started = 1]
              /\ UNCHANGED <<queued, done>>
         ELSE /\ done' = done + 1
              /\ call' = [rec EXCEPT !.outcome = "returned", !.ran = 1]
              /\ UNCHANGED <<pending, queued>>
    ELSE IF worker[d] = "uwsgi"
    THEN /\ queued' = queued + 1
         /\ call' = [rec EXCEPT !.outcome = "returned", !.spooled = 1]
         /\ UNCHANGED <<pending, done>>
    ELSE \* None is not callable and has no attributes; a module whose import
         \* failed defines no task.
         /\ call' = [rec EXCEPT !.outcome = "raised"]
         /\ UNCHANGED <<pending, queued, done>>

Dispatch ==
    /\ call.n < MaxDispatch
    /\ \E d \in Decorators, via \in Vias :
         /\ worker[d] # "undecorated"
         /\ Invoke(d, via)
    /\ UNCHANGED <<settings, uwsgi, worker>>
    /\ UNCHANGED notTasks

\* A worker thread started by inner runs the wrapped function.
ThreadRuns ==
    /\ pending > 0
    /\ pending' = pending - 1
    /\ done' = done + 1
    /\ UNCHANGED <<settings, uwsgi, worker, queued, call>>
    /\ UNCHANGED notTasks

\* The uwsgi spooler runs a job.
SpoolerRuns ==
    /\ queued > 0
    /\ queued' = queued - 1
    /\ done' = done + 1
    /\ UNCHANGED <<settings, uwsgi, worker, pending, call>>
    /\ UNCHANGED notTasks

(***************************************************************************)
(* Concurrent count calls.                                                 *)
(***************************************************************************)

\* The request threads that read a count at the same time.
Readers == 1..MaxReaders

\* The keys their paginators are built with: none (the default ''), whitespace
\* only, a word, and the word with whitespace around it.
RaceKeys == { <<>>, <<" ", "\t">>, <<"a">>, <<" ", "a">> }

\* A thread that is not in a count call.  reads and writes count its calls of
\* cache.get and cache.set, computed its runs of the underlying count.
NoReader == [pc |-> "idle", raw |-> <<>>, key |-> <<>>, value |-> None,
             computed |-> 0, reads |-> 0, writes |-> 0]

\* A count that goes to the cache whatever its key is.
CountBeginsAlwaysCached(r, rawKey) ==
    LET key == sanitize(rawKey)
        rec == [NoReader EXCEPT !.raw = rawKey, !.key = key]
        value == cache_get(key)
    IN
    readers' = [readers EXCEPT ![r] =
                   [rec EXCEPT !.value = value, !.reads = 1,
                               !.pc = IF value = None THEN "miss" ELSE "done"]]

\* CachedPaginator(cache_key=rawKey).count up to its first access, views.py
\* 77-93 and 98-99: with a key, cache.get; without one, the count itself.
CountBegins(r, rawKey) ==
    LET key == sanitize(rawKey)
        rec == [NoReader EXCEPT !.raw = rawKey, !.key = key]
    IN
    IF key # <<>>
    THEN LET value == cache_get(key) IN
         readers' = [readers EXCEPT ![r] =
                        [rec EXCEPT !.value = value, !.reads = 1,
                                    !.pc = IF value = None THEN "miss" ELSE "done"]]
    ELSE readers' = [readers EXCEPT ![r] =
                        [rec EXCEPT !.value = super_count, !.computed = 1, !.pc = "done"]]

\* A thread starts a count call.
CountStarts ==
    /\ \E r \in Readers, rawKey \in RaceKeys :
         /\ readers[r].pc \in {"idle", "done"}
         /\ CountBegins(r, rawKey)
    /\ UNCHANGED cacheVars
    /\ UNCHANGED notRace

\* views.py 94: after a miss, the underlying count.
CountComputes ==
    /\ \E r \in Readers :
         /\ readers[r].pc = "miss"
         /\ readers' = [readers EXCEPT ![r].value = super_count,
                                       ![r].computed = readers[r].computed + 1,
                                       ![r].pc = "store"]
    /\ UNCHANGED cacheVars
    /\ UNCHANGED notRace

\* The store of a thread that puts what cache.get gave it into the cache.
StoresWhatItRead(r) ==
    /\ cache' = cache_set(readers[r].key, None, TTL)
    /\ readers' = [readers EXCEPT ![r].writes = readers[r].writes + 1, ![r].pc = "done"]

\* views.py 96: cache.set(self.cache_key, value, self.ttl), and the return.
Stores(r) ==
    /\ cache' = cache_set(readers[r].key, readers[r].value, TTL)
    /\ readers' = [readers EXCEPT ![r].writes = readers[r].writes + 1, ![r].pc = "done"]

CountStores ==
    /\ \E r \in Readers : readers[r].pc = "store" /\ Stores(r)
    /\ UNCHANGED <<now, dbCount, calls>>
    /\ UNCHANGED notRace

(***************************************************************************)
(* Periodic tasks.                                                         *)
(***************************************************************************)

TimerIds == 1..MaxTimers

\* A timer that was never started.  elapsed counts the waits that timed out and
\* fired the calls of the wrapped function, both modulo CounterWrap.
NoTimer == [loc |-> "none", elapsed |-> 0, fired |-> 0]

\* timed(secs), decorators.py 24-37: with MULTI_THREAD a daemon thread is
\* started on loop, which begins by waiting; without it the function is called
\* once, in the caller, and timed returns.
timed(i) ==
    IF settings.MULTI_THREAD
    THEN timers' = [timers EXCEPT ![i] = [loc |-> "wait", elapsed |-> 0, fired |-> 0]]
    ELSE timers' = [timers EXCEPT ![i] = [loc |-> "returned", elapsed |-> 0, fired |-> 1]]

\* worker.timer(secs) on a decorated function; the attribute exists on inner
\* only (decorators.py 42).
StartTimer ==
    /\ alive
    /\ \E d \in Decorators, i \in TimerIds :
         /\ worker[d] = "inner"
         /\ timers[i].loc = "none"
         /\ \A j \in TimerIds : j < i => timers[j].loc # "none"
         /\ timed(i)
    /\ UNCHANGED alive
    /\ UNCHANGED notTimers

\* loop, decorators.py 27-28: ticker.wait(secs) times out, nobody ever sets the
\* event, and the while test lets the body run.
TimerWaits(i) ==
    /\ alive
    /\ timers[i].loc = "wait"
    /\ timers' = [timers EXCEPT ![i].loc = "call",
                                ![i].elapsed = (timers[i].elapsed + 1) % CounterWrap]
    /\ UNCHANGED alive
    /\ UNCHANGED notTimers

\* loop with a body that calls the function and leaves the loop.
TimerCallsAndStops(i) ==
    /\ alive
    /\ timers[i].loc = "call"
    /\ timers' = [timers EXCEPT ![i].loc = "returned",
                                ![i].fired = (timers[i].fired + 1) % CounterWrap]
    /\ UNCHANGED alive
    /\ UNCHANGED notTimers

\* loop, decorators.py 29: the body calls the function and goes back to wait.
TimerCalls(i) ==
    /\ alive
    /\ timers[i].loc = "call"
    /\ timers' = [timers EXCEPT ![i].loc = "wait",
                                ![i].fired = (timers[i].fired + 1) % CounterWrap]
    /\ UNCHANGED alive
    /\ UNCHANGED notTimers

IntervalElapses == \E i \in TimerIds : TimerWaits(i)

TimerFires == \E i \in TimerIds : TimerCalls(i)

\* The process ends, and its daemon threads with it.
Shutdown ==
    /\ alive
    /\ alive' = FALSE
    /\ UNCHANGED timers
    /\ UNCHANGED notTimers

(***************************************************************************)
(* The post listing query builder.                                         *)
(***************************************************************************)

\* Who asks for a listing: AnonymousUser, a user, and a moderator.
Requesters == {"anonymous", "u1", "u2"}
Members == {"u1", "u2"}
ListingModerators == {"u2"}

\* user.is_authenticated
is_authenticated(user) == user # "anonymous"

\* user.profile.my_tags.split(","), per user.
my_tags == ("u1" :> <<"rna">>) @@ ("u2" :> <<"">>)

\* The topic words of biostar.forum.const.
LATEST == "latest"
SHOW_SPAM == "spam"
OPEN == "open"
BOOKMARKS == "bookmarks"
FOLLOWING == "following"
MYPOSTS == "myposts"
MYVOTES == "myvotes"
MYTAGS == "mytags"

\* The topics a request can carry: the words above, content types, a tag name,
\* a word in capitals, and none.
Topics == {"", SHOW_SPAM, OPEN, BOOKMARKS, FOLLOWING, MYPOSTS, MYVOTES, MYTAGS,
           "question", "jobs", "Jobs", "rna"}

\* str.lower() on the topics of the model.
lower(topic) == IF topic = "Jobs" THEN "jobs" ELSE topic

\* The types of the posts of the model, and Post.<TYPE> as a number.
PostTypes == {"QUESTION", "JOB", "ANSWER"}
TypeCode(type) ==
    IF type = "QUESTION" THEN question_code
    ELSE IF type = "ANSWER" THEN 1
    ELSE IF type = "JOB" THEN 2
    ELSE IF type = "TUTORIAL" THEN 8
    ELSE IF type = "FORUM" THEN 3
    ELSE IF type = "BLOG" THEN 5
    ELSE IF type = "TOOL" THEN 10
    ELSE IF type = "NEWS" THEN 11
    ELSE 4

\* POST_TYPE, views.py 32-41: topic word -> Post type.
POST_TYPE ==
    [question |-> "QUESTION", jobs |-> "JOB", tutorials |-> "TUTORIAL", forum |-> "FORUM",
     planet |-> "BLOG", tools |-> "TOOL", news |-> "NEWS", pages |-> "PAGE"]

\* LIMIT_MAP, views.py 43-49: limit word -> days.
LIMIT_MAP == [all |-> 0, today |-> 1, week |-> 7, month |-> 30, year |-> 365]

\* ORDER_MAPPER of biostar.forum.const: order word -> sort expression.
ORDER_MAPPER == [rank |-> "-rank", views |-> "-view_count"]

Limits == {"all", "week"}
Orders == {"rank", "bogus"}

PostIds == {"p1"}
TagNames == {"rna", BOOKMARKS}
VoteTypes == {"UP", "BOOKMARK"}
NO_MESSAGES == "NO_MESSAGES"
SubTypes == {"EMAIL", NO_MESSAGES}

AllPosts == DOMAIN db.posts

\* Post.objects.filter(is_toplevel=True, root__status=Post.OPEN)
BasePosts == { p \in AllPosts : db.posts[p].is_toplevel /\ db.posts[p].root_open }

HasVote(p, user, type) == \E v \in db.votes : v.post = p /\ v.author = user /\ v.type = type
HasAnyVote(p) == \E v \in db.votes : v.post = p
HasSub(p, user) == \E sb \in db.subs : sb.post = p /\ sb.user = user
HasSubOfType(p, type) == \E sb \in db.subs : sb.post = p /\ sb.type = type
TaggedIn(p, names) == \E i \in 1..Len(names) : names[i] \in db.posts[p].tags

\* get_posts, views.py 113-147: the chain of filters on the topic, already
\* lower-cased; the first test that holds decides.
TopicFilter(user, topic) ==
    LET \* POST_TYPE.get(topic), with None as 0: both fail the test of line 119.
        post_type == IF topic \in DOMAIN POST_TYPE THEN TypeCode(POST_TYPE[topic]) ELSE 0
    IN
    IF post_type # 0
    THEN { p \in BasePosts : TypeCode(db.posts[p].type) = post_type }
    ELSE IF topic = SHOW_SPAM /\ user \in ListingModerators
    THEN { p \in AllPosts : db.posts[p].spam }
    ELSE IF topic = OPEN
    THEN { p \in BasePosts : TypeCode(db.posts[p].type) = TypeCode("QUESTION")
                             /\ db.posts[p].answer_count = 0 }
    ELSE IF topic = BOOKMARKS /\ is_authenticated(user)
    THEN { p \in AllPosts : HasVote(p, user, "BOOKMARK") }
    ELSE IF topic = FOLLOWING /\ is_authenticated(user)
    THEN \* filter(subs__user=user).exclude(subs__type=NO_MESSAGES): the exclude
         \* drops a post that has any subscription of that type.
         { p \in BasePosts : HasSub(p, user) /\ ~HasSubOfType(p, NO_MESSAGES) }
    ELSE IF topic = MYPOSTS /\ is_authenticated(user)
    THEN { p \in AllPosts : db.posts[p].author = user }
    ELSE IF topic = MYVOTES /\ is_authenticated(user)
    THEN \* filter(votes__post__author=user): a vote on the post, whose post (the
         \* same post) is written by the user.
         { p \in BasePosts : db.posts[p].author = user /\ HasAnyVote(p) }
    ELSE IF topic = MYTAGS /\ is_authenticated(user)
    THEN { p \in BasePosts : TaggedIn(p, my_tags[user]) }
    ELSE IF topic # LATEST /\ topic \notin DOMAIN POST_TYPE
    THEN { p \in BasePosts : topic \in db.posts[p].tags }
    ELSE BasePosts

\* get_posts, views.py 149-154: the sort expression.
Ordering(order) == IF order \in DOMAIN ORDER_MAPPER THEN ORDER_MAPPER[order] ELSE "-rank"

\* get_posts, views.py 156-160: the posts edited within the time limit.
WithinLimit(found, limit) ==
    LET days == IF limit \in DOMAIN LIMIT_MAP THEN LIMIT_MAP[limit] ELSE 0 IN
    IF days # 0 THEN { p \in found : db.posts[p].age < days } ELSE found

\* Line 122 reads user.profile, which AnonymousUser does not have.
RaisesOnProfile(user, topic) ==
    /\ topic = SHOW_SPAM
    /\ ~is_authenticated(user)
    /\ ~(topic \in DOMAIN POST_TYPE /\ TypeCode(POST_TYPE[topic]) # 0)

\* get_posts(user, topic, order, limit), views.py 104-165.
get_posts(user, topic, order, limit) ==
    LET t == lower(IF topic = "" THEN LATEST ELSE topic) IN
    IF RaisesOnProfile(user, t)
    THEN [raised |-> TRUE, posts |-> {}, ordering |-> "none"]
    ELSE [raised |-> FALSE,
          posts |-> WithinLimit(TopicFilter(user, t), limit),
          ordering |-> Ordering(order)]

NoListing == [user |-> "none", topic |-> "none", limit |-> "none",
              raised |-> FALSE, posts |-> {}, ordering |-> "none"]

\* A caller asks for a listing.
GetPosts ==
    /\ listing = NoListing
    /\ \E user \in Requesters, topic \in Topics, order \in Orders, limit \in Limits :
         LET r == get_posts(user, topic, order, limit) IN
         listing' = [user |-> user, topic |-> topic, limit |-> limit,
                     raised |-> r.raised, posts |-> r.posts, ordering |-> r.ordering]
    /\ UNCHANGED <<db, question_code>>
    /\ UNCHANGED notPosts

\* The rows a post can be: answers are not top level and have no answers of
\* their own.
PostRows ==
    { r \in [type : PostTypes, is_toplevel : BOOLEAN, root_open : BOOLEAN,
             answer_count : {0, 1}, author : Members, tags : {{}, {"rna"}, {BOOKMARKS}},
             age : {0, OldAge}, spam : BOOLEAN] :
        /\ r.is_toplevel = (r.type # "ANSWER")
        /\ (r.type = "ANSWER" => r.answer_count = 0) }

VoteRows == [author : Members, post : PostIds, type : VoteTypes]
SubRows == [user : Members, post : PostIds, type : SubTypes]

(***************************************************************************)
(* The listing views.                                                      *)
(***************************************************************************)

\* The views that list posts or votes, and those wrapped in @authenticated.
ListingViews == {"latest", "post_topic", "myvotes", "myposts", "following", "bookmarks",
                 "mytags"}
GuardedViews == {"myvotes", "myposts", "following", "bookmarks", "mytags"}

\* The topic a guarded view hands to post_list.
ViewTopic == [myposts |-> MYPOSTS, following |-> FOLLOWING, bookmarks |-> BOOKMARKS,
              mytags |-> MYTAGS]

\* The topics of /t/<topic>/ and the values of the GET parameter "type".
UrlTopics == {"jobs", "rna", "r na"}
TypeParams == {"", "jobs"}

\* LATEST_CACHE_KEY of biostar.forum.const.
LATEST_CACHE_KEY == "latest"

\* ''.join(word.split()) on the words of the model.
strip(word) == IF word = "r na" THEN "rna" ELSE word

\* The cache key a view builds, as the sequence of the parts it joins with "-",
\* after CachedPaginator.__init__ has taken the whitespace out.
sanitized(parts) == [i \in DOMAIN parts |-> strip(parts[i])]

NoVisit == [view |-> "none", user |-> "none", ran |-> FALSE, kind |-> "none",
            msg |-> "none", key |-> <<>>, found |-> {}, count |-> 0, cached |-> FALSE]

\* post_list, views.py 256-286, for a request of user with the GET parameters
\* type, order and limit; topic is "" when the view hands none in.  The record
\* of the visit and the cache after it.
post_list(view, user, topic, type, order, limit, cache_key) ==
    LET asked == IF topic # "" THEN topic ELSE type
        r == get_posts(user, asked, order, limit)
        key == sanitized(cache_key)
        hit == key # <<>> /\ key \in DOMAIN served
        count == IF hit THEN served[key] ELSE Cardinality(r.posts)
    IN
    IF r.raised
    THEN [visit |-> [NoVisit EXCEPT !.view = view, !.user = user, !.ran = TRUE,
                                    !.kind = "raise", !.key = key],
          cache |-> served]
    ELSE [visit |-> [NoVisit EXCEPT !.view = view, !.user = user, !.ran = TRUE,
                                    !.kind = "render", !.key = key, !.found = r.posts,
                                    !.count = count, !.cached = hit],
          cache |-> IF key # <<>> /\ ~hit THEN (key :> count) @@ served ELSE served]

\* latest, views.py 289-299.
latest(user, type, order, limit) ==
    post_list("latest", user, "", type, order, limit, <<LATEST_CACHE_KEY, order, limit>>)

\* post_topic, views.py 302-312.
post_topic(user, topic, type, order, limit) ==
    post_list("post_topic", user, topic, type, order, limit, <<topic, order, limit>>)

\* myvotes without its decorator, views.py 326-348: the votes on the posts of
\* the user, counted without a cache key, and the session counter reset.
myvotes(user) ==
    [visit |-> [NoVisit EXCEPT !.view = "myvotes", !.user = user, !.ran = TRUE,
                               !.kind = "render",
                               !.count = Cardinality({ v \in db.votes :
                                                         db.posts[v.post].author = user })],
     cache |-> served]

\* myposts, following, bookmarks, mytags without their decorator, views.py 380-429.
personal(view, user, type, order, limit) ==
    post_list(view, user, ViewTopic[view], type, order, limit, <<ViewTopic[view], user>>)

\* authenticated, views.py 315-322: what the wrapper does for an anonymous user.
TurnedAway(view, user) ==
    [visit |-> [NoVisit EXCEPT !.view = view, !.user = user, !.ran = FALSE,
                               !.kind = "str",
                               !.msg = "You need to be logged in to view this page."],
     cache |-> served]

\* One request to a listing view.
Respond(view, user, topic, type, order, limit) ==
    IF view = "latest" THEN latest(user, type, order, limit)
    ELSE IF view = "post_topic" THEN post_topic(user, topic, type, order, limit)
    ELSE IF user = "anonymous" THEN TurnedAway(view, user)
    ELSE IF view = "myvotes" THEN myvotes(user)
    ELSE personal(view, user, type, order, limit)

\* The requests there are: the topic belongs to post_topic alone.
Requested(view, topic) == (view = "post_topic") = (topic # "")

FirstVisit ==
    /\ first = NoVisit
    /\ \E view \in ListingViews, user \in Requesters, topic \in UrlTopics \cup {""},
          type \in TypeParams, order \in Orders, limit \in Limits :
         /\ Requested(view, topic)
         /\ LET out == Respond(view, user, topic, type, order, limit) IN
            /\ first' = out.visit
            /\ served' = out.cache
    /\ UNCHANGED <<second, postVars>>
    /\ UNCHANGED notViews

SecondVisit ==
    /\ first # NoVisit
    /\ second = NoVisit
    /\ \E view \in ListingViews, user \in Requesters, topic \in UrlTopics \cup {""},
          type \in TypeParams, order \in Orders, limit \in Limits :
         /\ Requested(view, topic)
         /\ LET out == Respond(view, user, topic, type, order, limit) IN
            /\ second' = out.visit
            /\ served' = out.cache
    /\ UNCHANGED <<first, postVars>>
    /\ UNCHANGED notViews

\* The rows of the posts the views are asked for: open top-level posts.
ViewRows ==
    { r \in [type : {"QUESTION", "JOB"}, is_toplevel : {TRUE}, root_open : {TRUE},
             answer_count : {0}, author : Members, tags : {{}, {"rna"}, {"r na"}},
             age : {0, OldAge}, spam : {FALSE}] : TRUE }

(***************************************************************************)
(* The specifications.                                                     *)
(***************************************************************************)

CacheIdle ==
    /\ cache = [k \in CacheKeys |-> NoEntry]
    /\ now = 0
    /\ dbCount = 0
    /\ calls = <<>>

ModIdle ==
    /\ posts = [uid \in PostUids |->
                  [author |-> "alice", spam |-> NOT_SPAM, is_toplevel |-> TRUE, answered |-> FALSE]]
    /\ profiles = [u \in Users |-> [state |-> Profile_NEW, score |-> 0]]
    /\ log = <<>>
    /\ last = NoRequest
    /\ mutations = 0
    /\ bumps = [u \in Users |-> 0]
    /\ inplace = FALSE

BadgesIdle ==
    /\ awards = [i \in {} |-> 0]
    /\ badges = <<>>
    /\ runs = 0
    /\ fresh = FALSE

TasksIdle ==
    /\ settings = [DISABLE_TASKS |-> FALSE, MULTI_THREAD |-> FALSE]
    /\ uwsgi = FALSE
    /\ worker = [d \in Decorators |-> "undecorated"]
    /\ pending = 0
    /\ queued = 0
    /\ done = 0
    /\ call = NoCall

ViewsIdle ==
    /\ served = <<>>
    /\ first = NoVisit
    /\ second = NoVisit

RaceIdle == readers = [r \in Readers |-> NoReader]

TimersIdle ==
    /\ timers = [i \in TimerIds |-> NoTimer]
    /\ alive = TRUE

PostsIdle ==
    /\ db = [posts |-> <<>>, votes |-> {}, subs |-> {}]
    /\ question_code = 0
    /\ listing = NoListing

InitCache ==
    /\ cache = [k \in CacheKeys |-> NoEntry]
    /\ now = 0
    /\ dbCount \in 0..MaxCount
    /\ calls = <<>>
    /\ ModIdle
    /\ BadgesIdle
    /\ TasksIdle
    /\ PostsIdle
    /\ TimersIdle
    /\ RaceIdle
    /\ ViewsIdle

NextCache == CountCall \/ Tick \/ CollectionChanges

SpecCache == InitCache /\ [][NextCache]_vars

\* Request threads read counts of one collection, which does not change, at the
\* same time, while time passes.
NextRace == CountStarts \/ CountComputes \/ CountStores \/ Tick

SpecRace == InitCache /\ [][NextRace]_vars

\* Two posts of alice, the second one an answer, each quarantined or not; alice
\* with any score; and create_profile's default state for alice.
InitMod ==
    /\ \E s1, s2 \in {NOT_SPAM, SUSPECT} :
         posts = ("p1" :> [author |-> "alice", spam |-> s1, is_toplevel |-> TRUE, answered |-> FALSE])
              @@ ("p2" :> [author |-> "alice", spam |-> s2, is_toplevel |-> FALSE, answered |-> FALSE])
    /\ \E sc \in 0..MaxScore :
         profiles = ("mod" :> [state |-> Profile_TRUSTED, score |-> MaxScore])
                 @@ ("alice" :> [state |-> Profile_NEW, score |-> sc])
    /\ log = <<>>
    /\ last = NoRequest
    /\ mutations = 0
    /\ bumps = [u \in Users |-> 0]
    /\ inplace \in BOOLEAN
    /\ CacheIdle
    /\ BadgesIdle
    /\ TasksIdle
    /\ PostsIdle
    /\ TimersIdle
    /\ RaceIdle
    /\ ViewsIdle

NextMod == MarkSpam \/ ReleaseQuar \/ UserModerate \/ PostView \/ BadgeView

SpecMod == InitMod /\ [][NextMod]_vars

\* An empty Badge table, and any definitions.
InitBadges ==
    /\ awards \in [{AwardNames[i] : i \in 1..Len(AwardNames)} -> Definitions]
    /\ badges = <<>>
    /\ runs = 0
    /\ fresh = FALSE
    /\ CacheIdle
    /\ ModIdle
    /\ TasksIdle
    /\ PostsIdle
    /\ TimersIdle
    /\ RaceIdle
    /\ ViewsIdle

NextBadges == init_awards \/ AwardChanges

SpecBadges == InitBadges /\ [][NextBadges]_vars

\* Any configuration, with or without uwsgi, and nothing decorated yet.
InitTasks ==
    /\ settings \in [DISABLE_TASKS : BOOLEAN, MULTI_THREAD : BOOLEAN]
    /\ uwsgi \in BOOLEAN
    /\ worker = [d \in Decorators |-> "undecorated"]
    /\ pending = 0
    /\ queued = 0
    /\ done = 0
    /\ call = NoCall
    /\ CacheIdle
    /\ ModIdle
    /\ BadgesIdle
    /\ PostsIdle
    /\ TimersIdle
    /\ RaceIdle
    /\ ViewsIdle

NextTasks == Decorate \/ Dispatch \/ ThreadRuns \/ SpoolerRuns

SpecTasks == InitTasks /\ [][NextTasks]_vars

\* The timers of a process that decorates its tasks and starts timers on them.
\* A running thread is scheduled again and again and a wait of secs seconds
\* ends, hence the weak fairness of the two steps of loop; nothing forces a
\* timer to be started or the process to end.
NextTimers == Decorate \/ StartTimer \/ IntervalElapses \/ TimerFires \/ Shutdown

SpecTimers ==
    /\ InitTasks
    /\ [][NextTimers]_vars
    /\ \A i \in TimerIds : WF_vars(TimerWaits(i)) /\ WF_vars(TimerCalls(i))

\* Any post, with at most MaxVotes votes and at most one subscription per user;
\* Post.QUESTION zero or not.
InitPosts ==
    /\ \E rows \in [PostIds -> PostRows], votes \in SUBSET VoteRows, subscriptions \in SUBSET SubRows :
         /\ Cardinality(votes) <= MaxVotes
         /\ \A a, b \in subscriptions : (a.user = b.user /\ a.post = b.post) => a = b
         /\ db = [posts |-> rows, votes |-> votes, subs |-> subscriptions]
    /\ question_code \in {0, 12}
    /\ listing = NoListing
    /\ CacheIdle
    /\ ModIdle
    /\ BadgesIdle
    /\ TasksIdle
    /\ TimersIdle
    /\ RaceIdle
    /\ ViewsIdle

NextPosts == GetPosts

SpecPosts == InitPosts /\ [][NextPosts]_vars

\* Two requests to the listing views, one after the other, over posts that do
\* not change and inside the TTL of the counts.
InitViews ==
    /\ \E rows \in [PostIds -> ViewRows], votes \in SUBSET VoteRows :
         /\ votes \subseteq {[author |-> "u1", post |-> "p1", type |-> "BOOKMARK"]}
         /\ db = [posts |-> rows, votes |-> votes, subs |-> {}]
    /\ question_code \in {0, 12}
    /\ listing = NoListing
    /\ ViewsIdle
    /\ CacheIdle
    /\ ModIdle
    /\ BadgesIdle
    /\ TasksIdle
    /\ TimersIdle
    /\ RaceIdle

NextViews == FirstVisit \/ SecondVisit

SpecViews == InitViews /\ [][NextViews]_vars

(***************************************************************************)
(* The claims.                                                             *)
(***************************************************************************)

\* C1: two count calls with the same non-empty key, the later one made while the
\* entry the earlier one read or wrote is still live, return the same value and
\* the later one computes nothing; a call that finds no live entry computes the
\* count and stores it again with a fresh TTL.
C1_CacheHitWithinTtl ==
    /\ \A i, j \in 1..Len(calls) :
         (i < j /\ calls[i].key = calls[j].key /\ calls[i].key # <<>>
               /\ calls[j].at < calls[i].expires)
         => (calls[j].value = calls[i].value /\ ~calls[j].computed)
    /\ \A j \in 1..Len(calls) :
         (calls[j].key # <<>> /\ ~calls[j].live)
         => (calls[j].computed /\ calls[j].expires = calls[j].at + TTL)
    /\ (calls # <<>> /\ calls[Len(calls)].key # <<>> /\ calls[Len(calls)].computed)
         => LET c == calls[Len(calls)] IN
            /\ cache[c.key].present
            /\ cache[c.key].value = c.value
            /\ cache[c.key].expires = c.at + TTL

\* C1 witness: a hit inside the TTL window that returns a value the collection
\* no longer has, and later a recomputation after the entry expired.
C1_Witness ==
    /\ Len(calls) = 3
    /\ calls[1].key = calls[2].key /\ calls[2].key = calls[3].key
    /\ calls[1].key # <<>>
    /\ calls[1].computed /\ ~calls[2].computed /\ calls[3].computed
    /\ calls[2].at > calls[1].at
    /\ calls[3].at >= calls[1].expires
    /\ calls[3].value # calls[1].value

\* A listing was asked for with this topic word (in any case of letters) and
\* get_posts returned.
Listed(topic) == listing.user # "none" /\ lower(listing.topic) = topic /\ ~listing.raised

\* C2: for a recognised topic asked by a user entitled to it, every post
\* get_posts returns meets the topic's predicate: a content-type word gives only
\* posts of that type; "open" only questions with no answer; "bookmarks" only
\* posts the user bookmarked; "following" the posts the user subscribes to, less
\* only those where the user's own subscription is "no messages"; "my posts"
\* only posts the user wrote; "my votes" only posts the user voted on.
C2_TopicPredicates ==
    /\ \A word \in DOMAIN POST_TYPE :
         Listed(word) => \A p \in listing.posts : db.posts[p].type = POST_TYPE[word]
    /\ Listed(OPEN) =>
         \A p \in listing.posts : db.posts[p].type = "QUESTION" /\ db.posts[p].answer_count = 0
    /\ (Listed(BOOKMARKS) /\ is_authenticated(listing.user)) =>
         \A p \in listing.posts : HasVote(p, listing.user, "BOOKMARK")
    /\ (Listed(FOLLOWING) /\ is_authenticated(listing.user)) =>
         listing.posts =
            { p \in WithinLimit(BasePosts, listing.limit) :
                /\ HasSub(p, listing.user)
                /\ [user |-> listing.user, post |-> p, type |-> NO_MESSAGES] \notin db.subs }
    /\ (Listed(MYPOSTS) /\ is_authenticated(listing.user)) =>
         \A p \in listing.posts : db.posts[p].author = listing.user
    /\ (Listed(MYVOTES) /\ is_authenticated(listing.user)) =>
         \A p \in listing.posts : \E type \in VoteTypes : HasVote(p, listing.user, type)

\* The topics that list what belongs to the requesting user.
PersonalTopics == {BOOKMARKS, FOLLOWING, MYPOSTS, MYVOTES, MYTAGS}

\* C3: for a requester who is not logged in and a topic among bookmarks,
\* following, my posts, my votes and my tags, get_posts does not raise and
\* returns exactly the base set (the top-level posts whose root is open, within
\* the time limit asked for), with no topic or tag filter applied.
C3_AnonymousGetsBaseSet ==
    (listing.user = "anonymous" /\ lower(listing.topic) \in PersonalTopics) =>
        /\ ~listing.raised
        /\ listing.posts = WithinLimit(BasePosts, listing.limit)

\* Timer i calls the function infinitely often: its count of calls, kept modulo
\* CounterWrap, takes every value again and again.
CalledForever(i) == \A k \in 0..(CounterWrap - 1) : []<>(timers[i].fired = k)

C12_ConcurrentCounts ==
    /\ \A r \in Readers :
         readers[r].key # <<>> =>
            /\ readers[r].computed <= 1
            /\ readers[r].pc = "done" => readers[r].value = super_count
            /\ readers[r].writes > 0 => cache[readers[r].key].present
    /\ \A k \in CacheKeys : cache[k].present => cache[k].value = super_count

\* C12 witness: two calls with the same sanitized key both missed, both ran the
\* count and both stored it; both have returned.
C12_Witness ==
    /\ \A r \in {1, 2} :
         /\ readers[r].pc = "done"
         /\ readers[r].key = <<"a">>
         /\ readers[r].computed = 1
         /\ readers[r].writes = 1
    /\ readers[1].raw # readers[2].raw
    /\ cache[<<"a">>].present

\* C13: when the key handed in is empty, absent or whitespace only, every count
\* call runs the underlying count itself, and the cache is neither read nor
\* written: no step of such a call changes the cache, and no entry is ever kept
\* under the empty key.
C13_EmptyKeyBypassesCache ==
    /\ [](/\ \A r \in Readers :
              (readers[r].pc # "idle" /\ readers[r].key = <<>>) =>
                 /\ readers[r].pc = "done"
                 /\ readers[r].value = super_count
                 /\ readers[r].computed = 1
                 /\ readers[r].reads = 0
                 /\ readers[r].writes = 0
          /\ ~cache[<<>>].present)
    /\ [][(\E r \in Readers : readers'[r] # readers[r] /\ readers'[r].key = <<>>)
              => cache' = cache]_vars

\* C13 witness: a call with a key of whitespace only has returned the count it
\* ran itself, while the cache holds a live entry another call stored.
C13_Witness ==
    /\ readers[1].pc = "done" /\ readers[1].raw = <<" ", "\t">> /\ readers[1].computed = 1
    /\ readers[2].pc = "done" /\ readers[2].writes = 1
    /\ cache_get(readers[2].key) # None

\* C14: an anonymous request to a view wrapped in @authenticated (myvotes,
\* myposts, following, bookmarks, mytags) never runs the body of the view (no
\* query, no session update) and ends in a redirect response to the post
\* listing with an error message, not in a failure or a value that is no
\* response.
C14_AnonymousRedirected ==
    \A visit \in {first, second} :
        (visit.user = "anonymous" /\ visit.view \in GuardedViews) =>
            /\ ~visit.ran
            /\ visit.msg = "You need to be logged in to view this page."
            /\ visit.kind = "redirect"

\* C15: the cache key of post_list determines the counted collection: when two
\* listing requests use the same sanitized key, get_posts builds the same
\* filtered collection for both, and so the count the second one is served is
\* the count of its own collection.
C15_KeyDeterminesCollection ==
    (/\ first.kind = "render" /\ second.kind = "render"
     /\ first.key # <<>> /\ first.key = second.key) =>
        /\ first.found = second.found
        /\ second.count = Cardinality(second.found)

\* The request handled last reached the view (no decorator turned it away) and
\* named an entity that exists.
Handled(handler) == last.handler = handler /\ last.exists /\ ~last.denied

\* C4: user_moderate on an existing target: a POST that fails validation leaves
\* the target's profile state as it was and adds no log row; a POST that passes
\* sets the profile state to the submitted action and adds exactly one log row,
\* with the requesting user as actor, the target, and the description.
C4_UserModerate ==
    (Handled("user_moderate") /\ last.method = "POST") =>
        /\ last.action \notin DOMAIN STATE_CHOICES => ~last.valid
        /\ IF last.valid
           THEN /\ profiles[last.uid].state = last.action
                /\ Len(log) = last.logBefore + 1
                /\ log[Len(log)] = [user |-> last.user,
                                    text |-> <<"set state to", get_state_display(last.action)>>,
                                    target |-> last.uid]
           ELSE /\ profiles[last.uid].state = last.stateBefore
                /\ Len(log) = last.logBefore

\* C4 witness: a valid POST that suspended a new user when the log already held
\* one row.
C4_Witness ==
    /\ Handled("user_moderate") /\ last.method = "POST" /\ last.valid
    /\ last.action = Profile_SUSPENDED /\ last.stateBefore = Profile_NEW
    /\ last.logBefore = 1

\* C5: a mark_spam request that reaches an existing post leaves it spam unless it
\* carries the restore flag; and after mark_spam on a post that was not spam,
\* mark_spam with the restore flag leaves the post not spam, with exactly one of
\* the two redirects going to the spam topic and the other to the home view.
C5_MarkSpamRestore ==
    [][ (last'.n = last.n + 1 /\ last'.handler = "mark_spam" /\ last'.exists) =>
          /\ ~last'.restore => is_spam(posts'[last'.uid])
          /\ ( /\ Handled("mark_spam") /\ last.uid = last'.uid
               /\ last.spamBefore # SPAM /\ ~last.restore /\ last'.restore )
             => /\ ~is_spam(posts'[last'.uid])
                /\ {last.to, last'.to} = {"post_topic:spam", "/"}
      ]_vars

C7_OneLogPerMutation == Len(log) = mutations

\* C9: a handler that is asked for a post, badge or user that does not exist
\* answers with an error message and a redirect, and changes nothing.
C9_AbsentEntity ==
    (last.handler \in {"mark_spam", "release_quar", "post_view", "badge_view", "user_moderate"}
        /\ ~last.exists /\ ~last.denied)
    => (last.kind = "redirect" /\ last.msg = "error" /\ ~last.changed)

\* C8: after init_awards has run, once or more often, there is exactly one Badge
\* row per award definition, and its description, icon and type are those of
\* the definition as it stands.
C8_SeedingIdempotent ==
    (fresh /\ runs >= 1) =>
        \A i \in 1..Len(AwardNames) :
            LET name == AwardNames[i]
                rows == { k \in 1..Len(badges) : badges[k].name = name }
            IN
            /\ Cardinality(rows) = 1
            /\ \A k \in rows : /\ badges[k].desc = awards[name].desc
                               /\ badges[k].icon = awards[name].icon
                               /\ badges[k].type = awards[name].type

\* The task is one the thread decorator wrapped: threaded, or spooler without
\* uwsgi.
ThreadDecorated == call.decorator = "threaded" \/ ~uwsgi

====
